---- MODULE Spec2Model ----
(***************************************************************************)
(* The App component of src/src/App.tsx: the model loader, the camera      *)
(* set-up, and the self-rescheduling inference loop (detectFrame) with the *)
(* statistics it publishes through React state.                            *)
(*                                                                         *)
(* Conventions.  Confidence scores and probabilities are kept in           *)
(* hundredths (0.92 is 92).  A quotient the code computes in floating      *)
(* point is kept as a reduced fraction [num, den]; den = 0 stands for the  *)
(* value a division by zero gives (NaN for 0/0).  Clock readings are whole *)
(* milliseconds; every read of the clock returns the previous reading plus *)
(* a delay chosen by the environment.                                      *)
(***************************************************************************)
EXTENDS Integers, Sequences, FiniteSets, TLC

VARIABLES
  \* React state (useState, lines 30-43)
  objectModel, classificationModel, detections, classifications, stats,
  isLoading, error, isVideoReady, timeSeriesData, confidenceDistribution,
  totalDetections, averageConfidence, fps, processingTime,
  \* the canvas: the labels drawn by the last cycle (lines 179-208)
  overlay,
  \* the closure of the detectFrame effect (lines 105-107)
  frameCount, lastTime, processingStartTime,
  \* positions of the asynchronous functions and the promises they await
  loadPc, cocoLoad, mobilenetLoad, cameraPc, loopPc,
  detectCall, classifyCall, detectResult, classifyResult,
  \* effects whose dependencies changed since they last ran
  effectsPending,
  \* the clock (performance.now(), in ms)
  now,
  \* history: what has been issued so far, and the record of every
  \* completed cycle
  modelLoads, cameraRequests, loopsStarted, cyclesStarted, log,
  \* requestAnimationFrame callbacks requested and not yet run
  animationFrames

published ==
  <<detections, classifications, stats, timeSeriesData, confidenceDistribution,
    totalDetections, averageConfidence, fps, processingTime, overlay>>

loaderVars == <<objectModel, classificationModel, isLoading, loadPc, cocoLoad,
                mobilenetLoad, modelLoads>>

cameraVars == <<cameraPc, isVideoReady, cameraRequests>>

loopVars == <<frameCount, lastTime, processingStartTime, loopPc, detectCall,
              classifyCall, detectResult, classifyResult, now, loopsStarted,
              cyclesStarted, log, animationFrames>>

vars == <<published, loaderVars, cameraVars, loopVars, error, effectsPending>>

----------------------------------------------------------------------------
(* Bounds and program constants *)

\* cycles per run of the short specification
MaxCycles == 2

\* cycles per run of the long specification (past the history's capacity)
LongCycles == 62

\* the long specification's scene repeats with this period
Period == 3

\* Date.now() - performance.now(), in ms
TimeOrigin == 500000

\* newData.slice(-60)
HistoryCap == 60

\* currentTime - lastTime >= 1000
FpsWindowMs == 1000

Null == "null"

LoadError == "Failed to load the detection models"

CameraError == "Unable to access camera"

----------------------------------------------------------------------------
(* Inputs *)

Cat92 == [class |-> "cat", score |-> 92, bbox |-> TRUE]

Dog75 == [class |-> "dog", score |-> 75, bbox |-> TRUE]

Person83 == [class |-> "person", score |-> 83, bbox |-> TRUE]

Person90 == [class |-> "person", score |-> 90, bbox |-> TRUE]

Cat100 == [class |-> "cat", score |-> 100, bbox |-> TRUE]

Dog95 == [class |-> "dog", score |-> 95, bbox |-> FALSE]

CatDog == <<Cat92, Dog75>>

\* what detect() may return in the short specification
Predictions ==
  { <<>>, CatDog, <<Person83, Person90, Cat100>>, <<Dog95, Cat92, Dog75>> }

\* what classify() may return
Classifications ==
  { <<>>, <<[className |-> "tabby", probability |-> 61]>> }

\* ms between two reads of the clock across an await
Delays == {40, 1000}

\* ms between the reads of one synchronous run
SyncDelays == {0, 1}

\* ms from a requestAnimationFrame call to its callback
FrameDelays == {16}

\* ms from the page's time origin to the start of the loop
MountDelays == {250}

\* the long specification's inputs
LongPredictions == { <<>>, CatDog }

LongClassifications == { <<>> }

LongDelays == {33, 34}

----------------------------------------------------------------------------
(* Pure functions of detectFrame *)

RECURSIVE GCD(_, _)
GCD(a, b) == IF b = 0 THEN a ELSE GCD(b, a % b)

\* a / b as a floating-point division gives it: a reduced fraction, and for
\* b = 0 the values NaN (0/0, num = 0) and Infinity (num = 1)
Ratio(a, b) ==
  IF b = 0
    THEN [num |-> IF a = 0 THEN 0 ELSE 1, den |-> 0]
    ELSE LET g == GCD(a, b) IN [num |-> a \div g, den |-> b \div g]

\* Math.round(a / b) for a >= 0, b > 0: the nearest integer, halves upwards
RoundDiv(a, b) == (2 * a + b) \div (2 * b)

RECURSIVE SumScores(_)
SumScores(predictions) ==
  IF predictions = <<>>
    THEN 0
    ELSE Head(predictions).score + SumScores(Tail(predictions))

LengthUnguarded(predictions) == Len(predictions)

\* predictions.length || 1
LengthOr1(predictions) ==
  IF Len(predictions) = 0 THEN 1 ELSE Len(predictions)

\* predictions.reduce((acc, pred) => acc + pred.score, 0) / (predictions.length || 1)
\* (scores are hundredths, so the divisor carries the factor 100)
CurrentConfidence(predictions) ==
  Ratio(SumScores(predictions), 100 * LengthOr1(predictions))

\* acc[key] = (acc[key] || 0) + 1 on an object whose entries keep the order
\* in which their keys were first set
Increment(acc, key) ==
  IF \E i \in DOMAIN acc : acc[i].key = key
    THEN [i \in DOMAIN acc |->
            IF acc[i].key = key
              THEN [key |-> key, count |-> acc[i].count + 1]
              ELSE acc[i]]
    ELSE Append(acc, [key |-> key, count |-> 1])

RECURSIVE CountKeys(_, _)
CountKeys(acc, keys) ==
  IF keys = <<>> THEN acc ELSE CountKeys(Increment(acc, Head(keys)), Tail(keys))

ClassKeys(predictions) == [i \in DOMAIN predictions |-> predictions[i].class]

NewStatsAccumulated(predictions) ==
  LET start == [i \in DOMAIN stats |->
                  [key |-> stats[i].name, count |-> stats[i].count]]
      counts == CountKeys(start, ClassKeys(predictions))
  IN  [i \in DOMAIN counts |-> [name |-> counts[i].key, count |-> counts[i].count]]

\* counts = predictions.reduce(..., {}); newStats = Object.entries(counts).map(...)
NewStats(predictions) ==
  LET counts == CountKeys(<<>>, ClassKeys(predictions))
  IN  [i \in DOMAIN counts |-> [name |-> counts[i].key, count |-> counts[i].count]]

ConfidenceRangeClamped(score) ==
  IF ((score * 10) \div 100) * 10 > 90 THEN 90 ELSE ((score * 10) \div 100) * 10

\* Math.floor(pred.score * 10) * 10
ConfidenceRange(score) == ((score * 10) \div 100) * 10

\* `${range}-${range + 10}%`
RangeStr(range) == ToString(range) \o "-" \o ToString(range + 10) \o "%"

RangeKeys(predictions) ==
  [i \in DOMAIN predictions |-> RangeStr(ConfidenceRange(predictions[i].score))]

\* confidenceRanges = predictions.reduce(..., {}) and its Object.entries map
NewConfidenceDistribution(predictions) ==
  LET confidenceRanges == CountKeys(<<>>, RangeKeys(predictions))
  IN  [i \in DOMAIN confidenceRanges |->
         [range |-> confidenceRanges[i].key, count |-> confidenceRanges[i].count]]

\* s.slice(-n)
SliceLast(s, n) == IF Len(s) <= n THEN s ELSE SubSeq(s, Len(s) - n + 1, Len(s))

AppendHistoryKeepFirst(prev, entry) ==
  LET newData == Append(prev, entry)
  IN  IF Len(newData) <= HistoryCap THEN newData ELSE SubSeq(newData, 1, HistoryCap)

\* newData = [...prev, entry]; return newData.slice(-60)
AppendHistory(prev, entry) ==
  LET newData == Append(prev, entry) IN SliceLast(newData, HistoryCap)

NextTotalPerCycle(prev, predictions) == Len(predictions)

\* setTotalDetections(prev => prev + predictions.length)
NextTotal(prev, predictions) == prev + Len(predictions)

FpsUnrounded(count, elapsed) == (count * 1000) \div elapsed

\* Math.round((frameCount * 1000) / (currentTime - lastTime))
FpsOf(count, elapsed) == RoundDiv(count * 1000, elapsed)

\* the labels drawn: one per prediction that has a bbox, with
\* confidence = Math.round(prediction.score * 100)
DrawDetections(predictions) ==
  LET boxed == SelectSeq(predictions, LAMBDA p : p.bbox)
  IN  [i \in DOMAIN boxed |->
         [label |-> boxed[i].class, confidence |-> boxed[i].score]]

\* videoRef.current and canvasRef.current: the <video> and <canvas> are
\* rendered unless the loading or the error screen is returned (lines 216-233)
RefsCurrent == ~isLoading /\ error = Null

----------------------------------------------------------------------------
(* The state after the first render, before its effects have run *)

Init ==
  /\ objectModel = FALSE
  /\ classificationModel = FALSE
  /\ detections = <<>>
  /\ classifications = <<>>
  /\ stats = <<>>
  /\ isLoading = TRUE
  /\ error = Null
  /\ isVideoReady = FALSE
  /\ timeSeriesData = <<>>
  /\ confidenceDistribution = <<>>
  /\ totalDetections = 0
  /\ averageConfidence = [num |-> 0, den |-> 1]
  /\ fps = 0
  /\ processingTime = 0
  /\ overlay = <<>>
  /\ frameCount = 0
  /\ lastTime = 0
  /\ processingStartTime = 0
  /\ loadPc = "idle"
  /\ cocoLoad = "idle"
  /\ mobilenetLoad = "idle"
  /\ cameraPc = "idle"
  /\ loopPc = "idle"
  /\ detectCall = "idle"
  /\ classifyCall = "idle"
  /\ detectResult = <<>>
  /\ classifyResult = <<>>
  /\ effectsPending = {"loadModels", "setupCamera", "detectFrame"}
  /\ now = 0
  /\ modelLoads = 0
  /\ cameraRequests = 0
  /\ loopsStarted = 0
  /\ cyclesStarted = 0
  /\ log = <<>>
  /\ animationFrames = 0

----------------------------------------------------------------------------
(* The model loader: the first effect and loadModels (lines 45-67) *)

\* the effect with no dependencies runs once and calls loadModels, which
\* awaits tf.ready()
LoadModelsEffect ==
  /\ "loadModels" \in effectsPending
  /\ effectsPending' = effectsPending \ {"loadModels"}
  /\ loadPc' = "tfReady"
  /\ modelLoads' = modelLoads + 1
  /\ UNCHANGED <<published, objectModel, classificationModel, isLoading,
                 cocoLoad, mobilenetLoad, cameraVars, loopVars, error>>

\* tf.ready() resolves: both loads are issued and Promise.all is awaited
TfReadyResolve ==
  /\ loadPc = "tfReady"
  /\ loadPc' = "loading"
  /\ cocoLoad' = "pending"
  /\ mobilenetLoad' = "pending"
  /\ UNCHANGED <<published, objectModel, classificationModel, isLoading,
                 modelLoads, cameraVars, loopVars, error, effectsPending>>

\* the catch block
LoadFailed ==
  /\ error' = LoadError
  /\ isLoading' = FALSE
  /\ loadPc' = "failed"

TfReadyReject ==
  /\ loadPc = "tfReady"
  /\ LoadFailed
  /\ UNCHANGED <<published, objectModel, classificationModel, cocoLoad,
                 mobilenetLoad, modelLoads, cameraVars, loopVars,
                 effectsPending>>

CocoLoadResolve ==
  /\ cocoLoad = "pending"
  /\ cocoLoad' = "resolved"
  /\ UNCHANGED <<published, objectModel, classificationModel, isLoading,
                 loadPc, mobilenetLoad, modelLoads, cameraVars, loopVars,
                 error, effectsPending>>

CocoLoadReject ==
  /\ cocoLoad = "pending"
  /\ cocoLoad' = "rejected"
  /\ UNCHANGED <<published, objectModel, classificationModel, isLoading,
                 loadPc, mobilenetLoad, modelLoads, cameraVars, loopVars,
                 error, effectsPending>>

MobilenetLoadResolve ==
  /\ mobilenetLoad = "pending"
  /\ mobilenetLoad' = "resolved"
  /\ UNCHANGED <<published, objectModel, classificationModel, isLoading,
                 loadPc, cocoLoad, modelLoads, cameraVars, loopVars, error,
                 effectsPending>>

MobilenetLoadReject ==
  /\ mobilenetLoad = "pending"
  /\ mobilenetLoad' = "rejected"
  /\ UNCHANGED <<published, objectModel, classificationModel, isLoading,
                 loadPc, cocoLoad, modelLoads, cameraVars, loopVars, error,
                 effectsPending>>

\* Promise.all resolved: setObjectModel, setClassificationModel,
\* setIsLoading(false); the two effects that depend on the models run again
LoadModelsDone ==
  /\ loadPc = "loading"
  /\ cocoLoad = "resolved"
  /\ mobilenetLoad = "resolved"
  /\ objectModel' = TRUE
  /\ classificationModel' = TRUE
  /\ isLoading' = FALSE
  /\ loadPc' = "done"
  /\ effectsPending' = effectsPending \cup {"setupCamera", "detectFrame"}
  /\ UNCHANGED <<published, cocoLoad, mobilenetLoad, modelLoads, cameraVars,
                 loopVars, error>>

\* Promise.all rejected (as soon as one load rejects)
LoadModelsReject ==
  /\ loadPc = "loading"
  /\ cocoLoad = "rejected" \/ mobilenetLoad = "rejected"
  /\ LoadFailed
  /\ UNCHANGED <<published, objectModel, classificationModel, cocoLoad,
                 mobilenetLoad, modelLoads, cameraVars, loopVars,
                 effectsPending>>

----------------------------------------------------------------------------
(* The frame source: the second effect and setupCamera (lines 69-95) *)

SetupCameraGuardNone == TRUE

\* if (!objectModel || !classificationModel) return
SetupCameraGuard == objectModel /\ classificationModel

SetupCameraEffect ==
  /\ "setupCamera" \in effectsPending
  /\ effectsPending' = effectsPending \ {"setupCamera"}
  /\ IF SetupCameraGuard
       THEN /\ cameraPc' = "requested"
            /\ cameraRequests' = cameraRequests + 1
       ELSE UNCHANGED <<cameraPc, cameraRequests>>
  /\ UNCHANGED <<published, loaderVars, isVideoReady, loopVars, error>>

\* getUserMedia resolved: the stream is attached and the 'loadeddata'
\* listener added, if the <video> is there
GetUserMediaResolve ==
  /\ cameraPc = "requested"
  /\ cameraPc' = IF RefsCurrent THEN "attached" ELSE "granted"
  /\ UNCHANGED <<published, loaderVars, isVideoReady, cameraRequests,
                 loopVars, error, effectsPending>>

CameraFailedRetry ==
  /\ error' = CameraError
  /\ cameraPc' = "requested"
  /\ cameraRequests' = cameraRequests + 1

\* the catch block of setupCamera
CameraFailed ==
  /\ error' = CameraError
  /\ cameraPc' = "failed"
  /\ UNCHANGED cameraRequests

GetUserMediaReject ==
  /\ cameraPc = "requested"
  /\ CameraFailed
  /\ UNCHANGED <<published, loaderVars, isVideoReady, loopVars,
                 effectsPending>>

EffectsAfterEverySignal == effectsPending \cup {"detectFrame"}

\* the effects to run after setIsVideoReady(true): isVideoReady is a
\* dependency of the third effect, which runs again when its value changed
EffectsAfterVideoReady ==
  IF isVideoReady THEN effectsPending
                  ELSE effectsPending \cup {"detectFrame"}

\* the 'loadeddata' listener: setIsVideoReady(true)
LoadedData ==
  /\ cameraPc = "attached"
  /\ isVideoReady' = TRUE
  /\ effectsPending' = EffectsAfterVideoReady
  /\ UNCHANGED <<published, loaderVars, cameraPc, cameraRequests, loopVars,
                 error>>

----------------------------------------------------------------------------
(* The inference loop: the third effect and detectFrame (lines 97-214) *)

\* detectFrame up to its await: the guard on the refs, the cycle-start
\* timestamp read as t, and the two calls handed to Promise.all
DetectFrameStart(t) ==
  IF RefsCurrent
    THEN /\ processingStartTime' = t
         /\ detectCall' = "pending"
         /\ classifyCall' = "pending"
         /\ loopPc' = "awaiting"
         /\ cyclesStarted' = cyclesStarted + 1
    ELSE /\ loopPc' = "stopped"
         /\ UNCHANGED <<processingStartTime, detectCall, classifyCall,
                        cyclesStarted>>

\* if (!objectModel || !classificationModel || !videoRef.current ||
\*     !canvasRef.current || !isVideoReady) return
DetectEffectGuard ==
  objectModel /\ classificationModel /\ RefsCurrent /\ isVideoReady

\* the effect's body: the closure's variables are initialised (the clock is
\* read d ms after its last reading) and detectFrame is called
DetectEffect(d) ==
  /\ "detectFrame" \in effectsPending
  /\ effectsPending' = effectsPending \ {"detectFrame"}
  /\ IF DetectEffectGuard
       THEN /\ frameCount' = 0
            /\ lastTime' = now + d
            /\ now' = now + d
            /\ loopsStarted' = loopsStarted + 1
            /\ DetectFrameStart(now + d)
       ELSE UNCHANGED <<frameCount, lastTime, now, loopsStarted,
                        processingStartTime, detectCall, classifyCall, loopPc,
                        cyclesStarted>>
  /\ UNCHANGED <<published, loaderVars, cameraVars, detectResult,
                 classifyResult, log, animationFrames, error>>

\* objectModel.detect(video) returns its predictions
DetectResolve(predictions) ==
  /\ detectCall = "pending"
  /\ detectCall' = "resolved"
  /\ detectResult' = predictions
  /\ UNCHANGED <<published, loaderVars, cameraVars, frameCount, lastTime,
                 processingStartTime, loopPc, classifyCall, classifyResult,
                 now, loopsStarted, cyclesStarted, log, animationFrames, error,
                 effectsPending>>

\* classificationModel.classify(video) returns its result
ClassifyResolve(classificationResult) ==
  /\ classifyCall = "pending"
  /\ classifyCall' = "resolved"
  /\ classifyResult' = classificationResult
  /\ UNCHANGED <<published, loaderVars, cameraVars, frameCount, lastTime,
                 processingStartTime, loopPc, detectCall, detectResult,
                 now, loopsStarted, cyclesStarted, log, animationFrames, error,
                 effectsPending>>

\* detect() rejects: Promise.all rejects, detectFrame's promise rejects with
\* nobody handling it, and nothing after the await runs
DetectReject ==
  /\ detectCall = "pending"
  /\ detectCall' = "rejected"
  /\ loopPc' = "rejected"
  /\ UNCHANGED <<published, loaderVars, cameraVars, frameCount, lastTime,
                 processingStartTime, classifyCall, detectResult,
                 classifyResult, now, loopsStarted, cyclesStarted, log,
                 animationFrames, error,
                 effectsPending>>

ClassifyReject ==
  /\ classifyCall = "pending"
  /\ classifyCall' = "rejected"
  /\ loopPc' = "rejected"
  /\ UNCHANGED <<published, loaderVars, cameraVars, frameCount, lastTime,
                 processingStartTime, detectCall, detectResult,
                 classifyResult, now, loopsStarted, cyclesStarted, log,
                 animationFrames, error,
                 effectsPending>>

JoinDetectOnly == detectCall = "resolved"

\* await Promise.all([detect, classify]) resolves when both have
JoinReady == detectCall = "resolved" /\ classifyCall = "resolved"

NoReschedule == loopPc' = "returned" /\ UNCHANGED animationFrames

\* requestAnimationFrame(detectFrame)
Reschedule ==
  /\ animationFrames' = animationFrames + 1
  /\ loopPc' = "scheduled"

\* currentTime - lastTime >= 1000
WindowElapsed(elapsed) == elapsed >= FpsWindowMs

\* detectFrame after its await (lines 120-210).  The clock reads
\* currentTime d ms after the cycle's start and, e ms later, the time of
\* the latency and of the history entry's Date.now()
CycleContinue(d, e) ==
  /\ loopPc = "awaiting"
  /\ JoinReady
  /\ LET predictions == detectResult
         currentTime == now + d
         elapsed == currentTime - lastTime
         count == frameCount + 1
         after == currentTime + e
         currentConfidence == CurrentConfidence(predictions)
     IN  /\ IF WindowElapsed(elapsed)
              THEN /\ fps' = FpsOf(count, elapsed)
                   /\ frameCount' = 0
                   /\ lastTime' = currentTime
              ELSE /\ frameCount' = count
                   /\ UNCHANGED <<fps, lastTime>>
         /\ processingTime' = after - processingStartTime
         /\ detections' = predictions
         /\ classifications' = classifyResult
         /\ stats' = NewStats(predictions)
         /\ timeSeriesData' =
              AppendHistory(timeSeriesData,
                            [timestamp |-> TimeOrigin + after,
                             detections |-> Len(predictions),
                             avgConfidence |-> currentConfidence])
         /\ confidenceDistribution' = NewConfidenceDistribution(predictions)
         /\ totalDetections' = NextTotal(totalDetections, predictions)
         /\ averageConfidence' = currentConfidence
         /\ overlay' = DrawDetections(predictions)
         /\ now' = after
         /\ log' = Append(log, [predictions |-> predictions,
                                classificationResult |-> classifyResult,
                                start |-> processingStartTime,
                                at |-> currentTime,
                                end |-> after])
  /\ Reschedule
  /\ detectCall' = "idle"
  /\ classifyCall' = "idle"
  /\ UNCHANGED <<loaderVars, cameraVars, processingStartTime, detectResult,
                 classifyResult, loopsStarted, cyclesStarted, error,
                 effectsPending>>

\* the display refresh runs the callback, d ms after the clock's last reading
AnimationFrame(d) ==
  /\ animationFrames > 0
  /\ animationFrames' = animationFrames - 1
  /\ now' = now + d
  /\ DetectFrameStart(now + d)
  /\ UNCHANGED <<published, loaderVars, cameraVars, frameCount, lastTime,
                 detectResult, classifyResult, loopsStarted, log, error,
                 effectsPending>>

----------------------------------------------------------------------------
(* Specifications *)

Startup ==
  \/ LoadModelsEffect
  \/ TfReadyResolve
  \/ TfReadyReject
  \/ CocoLoadResolve
  \/ CocoLoadReject
  \/ MobilenetLoadResolve
  \/ MobilenetLoadReject
  \/ LoadModelsDone
  \/ LoadModelsReject
  \/ SetupCameraEffect
  \/ GetUserMediaResolve
  \/ GetUserMediaReject
  \/ LoadedData
  \/ \E d \in MountDelays : DetectEffect(d)
  \/ DetectReject
  \/ ClassifyReject

\* up to MaxCycles cycles, every call returning any of the results
Next ==
  \/ Startup
  \/ \E predictions \in Predictions : DetectResolve(predictions)
  \/ \E classificationResult \in Classifications :
       ClassifyResolve(classificationResult)
  \/ \E d \in Delays, e \in SyncDelays : CycleContinue(d, e)
  \/ \E d \in FrameDelays : cyclesStarted < MaxCycles /\ AnimationFrame(d)

Spec == Init /\ [][Next]_vars

\* the cycle in flight is one of the first Period cycles
InFirstPeriod == cyclesStarted <= Period

\* the cycle whose inputs the cycle in flight repeats
PriorCycle == log[cyclesStarted - Period]

\* the inputs a cycle may take in a scene that repeats with period Period:
\* any in the first Period cycles, then those of the cycle Period earlier
RepeatingPredictions ==
  IF InFirstPeriod THEN LongPredictions ELSE {PriorCycle.predictions}

RepeatingClassifications ==
  IF InFirstPeriod THEN LongClassifications
                   ELSE {PriorCycle.classificationResult}

RepeatingDelays ==
  IF InFirstPeriod THEN LongDelays ELSE {PriorCycle.at - PriorCycle.start}

\* up to LongCycles cycles of a repeating scene
NextLong ==
  \/ Startup
  \/ \E predictions \in RepeatingPredictions : DetectResolve(predictions)
  \/ \E classificationResult \in RepeatingClassifications :
       ClassifyResolve(classificationResult)
  \/ \E d \in RepeatingDelays : CycleContinue(d, 0)
  \/ cyclesStarted < LongCycles /\ AnimationFrame(0)

SpecLong == Init /\ [][NextLong]_vars

\* the scheduling C6 assumes: calls that are pending return, the
\* continuation of a resolved await runs, the display refresh fires
Fairness ==
  /\ WF_vars(\E predictions \in RepeatingPredictions :
               DetectResolve(predictions))
  /\ WF_vars(\E classificationResult \in RepeatingClassifications :
               ClassifyResolve(classificationResult))
  /\ WF_vars(\E d \in RepeatingDelays : CycleContinue(d, 0))
  /\ WF_vars(cyclesStarted < LongCycles /\ AnimationFrame(0))

SpecLive == Init /\ [][NextLong]_vars /\ Fairness

----------------------------------------------------------------------------
(* Properties *)

Min(a, b) == IF a <= b THEN a ELSE b

\* the cycles completed so far
Completed == Len(log)

\* a step that completes a cycle
CycleCompletes == Len(log') = Len(log) + 1

\* the fraction q equals a / b (b > 0)
Equals(q, a, b) == q.den > 0 /\ q.num * b = a * q.den

RECURSIVE SumOfScores(_, _)
SumOfScores(p, k) == IF k = 0 THEN 0 ELSE p[k].score + SumOfScores(p, k - 1)

\* the history entry cycle number k appended
AppendedBy(entry, k) ==
  LET p == log[k].predictions
  IN  /\ entry.timestamp = TimeOrigin + log[k].end
      /\ entry.detections = Len(p)
      /\ Equals(entry.avgConfidence, SumOfScores(p, Len(p)),
                100 * (IF Len(p) = 0 THEN 1 ELSE Len(p)))

\* C1: the history has at most 60 entries; after n completed cycles it holds
\* exactly the entries of the last min(n, 60) cycles, oldest first, with
\* timestamps that never decrease (so the 61st append evicts the oldest)
C1_HistoryIsLast60 ==
  LET n == Completed
      m == Min(n, 60)
  IN  /\ Len(timeSeriesData) <= 60
      /\ Len(timeSeriesData) = m
      /\ \A i \in 1..m : AppendedBy(timeSeriesData[i], n - m + i)
      /\ \A i \in 1..(m - 1) :
           timeSeriesData[i].timestamp <= timeSeriesData[i + 1].timestamp

\* 61 cycles are done, the first two unlike each other: the first cycle's
\* entry is gone and the second's is the oldest
C1_Witness ==
  /\ Completed = 61
  /\ Len(timeSeriesData) = 60
  /\ log[1].predictions # log[2].predictions
  /\ timeSeriesData[1].detections = Len(log[2].predictions)
  /\ timeSeriesData[60].detections = Len(log[61].predictions)

RECURSIVE DetectionsUpTo(_)
DetectionsUpTo(k) ==
  IF k = 0 THEN 0 ELSE Len(log[k].predictions) + DetectionsUpTo(k - 1)

RECURSIVE DetectionsInHistory(_)
DetectionsInHistory(k) ==
  IF k = 0 THEN 0 ELSE timeSeriesData[k].detections + DetectionsInHistory(k - 1)

\* C2: totalDetections never decreases and always equals the sum of the
\* detection counts of all completed cycles, evicted ones included
C2_TotalIsCumulative ==
  /\ [](totalDetections = DetectionsUpTo(Completed))
  /\ [][totalDetections' >= totalDetections]_vars

\* more than 60 cycles are done and the total counts detections whose
\* history entries have been evicted
C2_Witness ==
  /\ Completed > 60
  /\ totalDetections > DetectionsInHistory(Len(timeSeriesData))
  /\ DetectionsInHistory(Len(timeSeriesData)) > 0

\* C3: the camera is requested only once both models are loaded, and a
\* cycle (its detect and classify calls) starts only once both models are
\* loaded and isVideoReady is set
C3_StartupOrder ==
  [][ /\ cameraRequests' > cameraRequests
         => objectModel /\ classificationModel /\ loadPc = "done"
      /\ (\/ cyclesStarted' > cyclesStarted
          \/ detectCall' = "pending" /\ detectCall # "pending"
          \/ classifyCall' = "pending" /\ classifyCall # "pending")
         => objectModel' /\ classificationModel' /\ loadPc' = "done"
            /\ isVideoReady' /\ cameraRequests' > 0 ]_vars

\* a cycle is in flight after the whole start-up
C3_Witness ==
  /\ cyclesStarted = 1
  /\ cameraRequests = 1
  /\ detectCall = "pending"
  /\ classifyCall = "pending"

\* C4: while the detect call or the classify call of the cycle has not
\* returned, no published state changes and no further cycle starts
C4_JoinSemantics ==
  [][ (detectCall = "pending" \/ classifyCall = "pending")
      => published' = published /\ cyclesStarted' = cyclesStarted ]_vars

\* in the second cycle detect has returned something new and classify has
\* not returned: what is published is still the first cycle's
C4_Witness ==
  /\ Completed = 1
  /\ cyclesStarted = 2
  /\ detectCall = "resolved"
  /\ classifyCall = "pending"
  /\ detectResult # detections
  /\ detections = log[1].predictions

\* C5: a failed model load or camera request sets its error message; once
\* an error is set it stays, no load and no camera request is issued again,
\* and no cycle runs
C5_ErrorsTerminal ==
  /\ [](loadPc = "failed" => error = LoadError)
  /\ [](cameraPc = "failed" => error = CameraError)
  /\ [](error # Null => cyclesStarted = 0 /\ Completed = 0)
  /\ [][ error # Null
         => /\ error' = error
            /\ modelLoads' = modelLoads
            /\ cameraRequests' = cameraRequests
            /\ cyclesStarted' = cyclesStarted
            /\ published' = published ]_vars

\* the camera request has failed after a successful load
C5_Witness ==
  /\ cameraPc = "failed"
  /\ error = CameraError
  /\ objectModel
  /\ cameraRequests = 1

\* C6: once the loop has started it is always in a cycle or scheduled for
\* one; if its calls return, a cycle in flight completes and schedules the
\* next, and a scheduled cycle starts
C6_LoopKeepsGoing ==
  /\ [](loopsStarted > 0 => loopPc \in {"awaiting", "scheduled", "rejected"})
  /\ (loopPc = "awaiting") ~> (loopPc \in {"scheduled", "rejected"})
  /\ (loopPc = "scheduled" /\ cyclesStarted < LongCycles)
       ~> (loopPc = "awaiting")

\* every cycle of the run has completed and scheduled its successor
C6_Witness ==
  /\ Completed = LongCycles
  /\ Completed > 60
  /\ loopPc = "scheduled"

\* h, a sequence of <<key, count>>, is the histogram of the keys: one entry
\* per key that occurs, with the number of its occurrences
HistogramOf(h, keys) ==
  /\ \A i, j \in DOMAIN h : h[i][1] = h[j][1] => i = j
  /\ \A i \in DOMAIN h :
       /\ h[i][2] = Cardinality({k \in DOMAIN keys : keys[k] = h[i][1]})
       /\ h[i][2] >= 1
  /\ \A k \in DOMAIN keys : \E i \in DOMAIN h : h[i][1] = keys[k]

StatsPairs == [i \in DOMAIN stats |-> <<stats[i].name, stats[i].count>>]

DistributionPairs ==
  [i \in DOMAIN confidenceDistribution |->
     <<confidenceDistribution[i].range, confidenceDistribution[i].count>>]

\* the label of the 10-point bucket that holds score c (in hundredths)
BucketLabel(c) ==
  LET low == CHOOSE l \in {10 * t : t \in 0..10} : l <= c /\ c < l + 10
  IN  ToString(low) \o "-" \o ToString(low + 10) \o "%"

RECURSIVE SumCounts(_, _)
SumCounts(h, k) == IF k = 0 THEN 0 ELSE h[k].count + SumCounts(h, k - 1)

LastPredictions == log[Completed].predictions

\* C7: after two cycles that each returned (cat 0.92, dog 0.75) the total is
\* 4, the class histogram is {cat: 1, dog: 1} and the history has two
\* entries with 2 detections and average 0.835; after any cycle both
\* histograms are those of that cycle's detections and the total is the sum
\* over all cycles
C7_PerCycleHistograms ==
  /\ (Completed = 2 /\ log[1].predictions = CatDog /\ log[2].predictions = CatDog)
       => /\ totalDetections = 4
          /\ stats = <<[name |-> "cat", count |-> 1], [name |-> "dog", count |-> 1]>>
          /\ Len(timeSeriesData) = 2
          /\ \A i \in 1..2 :
               /\ timeSeriesData[i].detections = 2
               /\ Equals(timeSeriesData[i].avgConfidence, 835, 1000)
  /\ Completed >= 1
       => /\ HistogramOf(StatsPairs,
                         [k \in DOMAIN LastPredictions |-> LastPredictions[k].class])
          /\ HistogramOf(DistributionPairs,
                         [k \in DOMAIN LastPredictions |->
                            BucketLabel(LastPredictions[k].score)])
          /\ totalDetections = DetectionsUpTo(Completed)

\* the two cycles of the scenario have completed
C7_Witness ==
  /\ Completed = 2
  /\ log[1].predictions = CatDog
  /\ log[2].predictions = CatDog
  /\ totalDetections = 4
  /\ detections = CatDog

\* C8: a cycle with no detections publishes average 0 (not NaN), appends a
\* history entry with 0 detections and average 0, empties both histograms,
\* leaves the total and the error state alone and schedules the next cycle
C8_EmptyCycleIsValid ==
  [][ (CycleCompletes /\ log'[Len(log')].predictions = <<>>)
      => /\ averageConfidence' = [num |-> 0, den |-> 1]
         /\ Len(timeSeriesData') = Min(Len(timeSeriesData) + 1, 60)
         /\ timeSeriesData'[Len(timeSeriesData')].detections = 0
         /\ timeSeriesData'[Len(timeSeriesData')].avgConfidence
              = [num |-> 0, den |-> 1]
         /\ stats' = <<>>
         /\ confidenceDistribution' = <<>>
         /\ totalDetections' = totalDetections
         /\ error' = Null
         /\ loopPc' = "scheduled" ]_vars

\* an empty cycle has followed one with detections
C8_Witness ==
  /\ Completed = 2
  /\ log[1].predictions # <<>>
  /\ log[2].predictions = <<>>
  /\ averageConfidence = [num |-> 0, den |-> 1]
  /\ totalDetections > 0
  /\ stats = <<>>
  /\ loopPc = "scheduled"

\* the count the confidence histogram gives to a label (0 when it has none)
Counted(label) ==
  IF \E i \in DOMAIN confidenceDistribution :
       confidenceDistribution[i].range = label
    THEN LET i == CHOOSE j \in DOMAIN confidenceDistribution :
                    confidenceDistribution[j].range = label
         IN  confidenceDistribution[i].count
    ELSE 0

\* C9: every detection of the cycle is counted in exactly one bucket, the
\* one labelled "<low>-<low+10>%" with low = floor(c * 10) * 10; the counts
\* sum to the number of detections; 0.83 is in "80-90%", 0.9 in "90-100%"
\* and 1.0 in "100-110%"
C9_ConfidenceBuckets ==
  Completed >= 1
    => LET p == LastPredictions
       IN  /\ HistogramOf(DistributionPairs,
                          [k \in DOMAIN p |-> BucketLabel(p[k].score)])
           /\ SumCounts(confidenceDistribution, Len(confidenceDistribution))
                = Len(p)
           /\ \A k \in DOMAIN p :
                /\ p[k].score = 83 => Counted("80-90%") >= 1
                /\ p[k].score = 90 => Counted("90-100%") >= 1
                /\ p[k].score = 100 => Counted("100-110%") >= 1
           /\ Counted("80-90%")
                = Cardinality({k \in DOMAIN p : 80 <= p[k].score /\ p[k].score < 90})
           /\ Counted("90-100%")
                = Cardinality({k \in DOMAIN p : 90 <= p[k].score /\ p[k].score < 100})
           /\ Counted("100-110%")
                = Cardinality({k \in DOMAIN p : p[k].score = 100})

\* a cycle with confidences 0.83, 0.9 and 1.0 has completed
C9_Witness ==
  /\ Completed >= 1
  /\ detections = <<Person83, Person90, Cat100>>
  /\ Counted("80-90%") = 1
  /\ Counted("90-100%") = 1
  /\ Counted("100-110%") = 1

\* the time the completing cycle read as currentTime
CompletedAt == log'[Len(log')].at

\* v is x / y rounded to the nearest integer, halves upwards (x >= 0, y > 0)
Nearest(v, x, y) == 2 * v * y - y <= 2 * x /\ 2 * x < 2 * v * y + y

ExactFps(v, frames, elapsed) == v * elapsed = frames * 1000

RoundedFps(v, frames, elapsed) ==
  /\ Nearest(v, frames * 1000, elapsed)
  /\ (frames = 30 /\ elapsed = 1000) => v = 30

\* what C10 says of every completed cycle, the value published being the
\* exact quotient or the rounded one
FpsWindowStep(exact) ==
  CycleCompletes
    => LET frames == frameCount + 1
           elapsed == CompletedAt - lastTime
       IN  IF elapsed >= 1000
             THEN /\ IF exact THEN ExactFps(fps', frames, elapsed)
                               ELSE RoundedFps(fps', frames, elapsed)
                  /\ frameCount' = 0
                  /\ lastTime' = CompletedAt
             ELSE /\ fps' = fps
                  /\ frameCount' = frames
                  /\ lastTime' = lastTime

\* C10 as claimed: the FPS published is exactly frames * 1000 / duration
C10_FpsExact == [][FpsWindowStep(TRUE)]_vars

\* C10 as amended: every completed cycle counts one frame; a cycle that
\* completes 1000 ms or more after the window's start publishes
\* frames * 1000 / duration rounded to the nearest integer, resets the
\* counter and starts the window at its completion time, and otherwise
\* leaves FPS alone; 30 cycles in exactly 1000 ms publish 30
C10_FpsRounded == [][FpsWindowStep(FALSE)]_vars

\* the 30th cycle has completed exactly 1000 ms after the loop started
C10_Witness ==
  /\ Completed = 30
  /\ log[30].at - log[1].start = 1000
  /\ fps = 30
  /\ frameCount = 0
  /\ lastTime = log[30].at

\* cycles started and not completed, and callbacks requested and not run
Outstanding == (cyclesStarted - Completed) + animationFrames

\* a step that starts a cycle
CycleStarts == cyclesStarted' > cyclesStarted

\* C11: the loop is started at most once, whatever 'loadeddata' signals and
\* re-renders follow; at most one cycle is in flight or scheduled; a
\* completed cycle schedules exactly one successor; a cycle starts only
\* when none is in flight, and the closure's frame counter, window start
\* and cycle-start timestamp are written only by the step that starts or
\* completes the one cycle in flight
C11_SingleLoop ==
  /\ [](loopsStarted <= 1)
  /\ [](Outstanding <= 1)
  /\ [][CycleCompletes => animationFrames' = animationFrames + 1]_vars
  /\ [][CycleStarts
        => cyclesStarted' = cyclesStarted + 1 /\ cyclesStarted = Completed]_vars
  /\ [][ (\/ frameCount' # frameCount
          \/ lastTime' # lastTime
          \/ processingStartTime' # processingStartTime)
         => \/ CycleStarts /\ cyclesStarted = Completed
            \/ CycleCompletes /\ cyclesStarted = Completed + 1 ]_vars

\* the loop has started once, its first cycle has completed and scheduled
\* the second, which is in flight with the video ready
C11_Witness ==
  /\ loopsStarted = 1
  /\ isVideoReady
  /\ Completed = 1
  /\ cyclesStarted = 2
  /\ loopPc = "awaiting"
  /\ animationFrames = 0

====
